---- MODULE Spec2Model ----
(***************************************************************************)
(* State-machine model of the aidetector server's detection engine:        *)
(*   routes/analyze.rs      request validation                             *)
(*   services/detector.rs   orchestrator (cache, fan-out, combine, store)  *)
(*   services/heuristics.rs heuristic engine                               *)
(*   services/anthropic.rs, services/openrouter.rs  LLM judge adapters     *)
(*   db.rs                  result store (table `analyses`)                *)
(*   config.rs, models.rs   provider selection, labels                     *)
(*                                                                         *)
(* Numbers: f64 scores and weights of the heuristic engine are kept        *)
(* doubled (all weights are multiples of 0.5), LLM confidences are in      *)
(* hundredths and combined confidences in thousandths, so every            *)
(* comparison and rounding of the source is exact integer arithmetic.      *)
(***************************************************************************)
EXTENDS Integers, Sequences, FiniteSets, TLC

(***************************************************************************)
(* Bounds of the model                                                     *)
(***************************************************************************)
\* number of clients, each sending one analyze request, concurrently
NumClients == 2
\* number of requests that come later, once the earlier ones have returned,
\* with a document sent before
NumRepeats == 1
\* the wall clock (seconds, the resolution of created_at) runs 0..MaxClock
MaxClock == 1

(***************************************************************************)
(* Program constants                                                       *)
(***************************************************************************)
\* routes/analyze.rs: request.content.len() > 50_000
MAX_CONTENT_LEN == 50000

Clients == 1..NumClients
Repeats == (NumClients + 1)..(NumClients + NumRepeats)
Requests == Clients \cup Repeats

(***************************************************************************)
(* Documents.  A document is described by what the code reads of it: its   *)
(* identity (the byte string), its length in characters and in UTF-8       *)
(* bytes, whether it is all whitespace, and the text statistics the        *)
(* heuristic extractors count.                                             *)
(*   sentLens  word count of each non-empty sentence (split on . ! ?)      *)
(*   uniq/tokens  unique and total normalised tokens (type-token ratio)    *)
(*   formula   matching FORMULAIC_PHRASES     aiwords  matching AI words   *)
(*   udash     em/en dashes                   shyph    " - " and " -- "    *)
(*   periods, terms, commas   punctuation counts                           *)
(*   words     whitespace-delimited words     informal informality count   *)
(*   lines     non-empty lines                promo    promotional phrases *)
(***************************************************************************)
DocCasual ==
  [key |-> "NUTELLA PANCAKES", chars |-> 16, bytes |-> 16, blank |-> FALSE,
   sentLens |-> <<2>>, uniq |-> 2, tokens |-> 2, formula |-> 0, udash |-> 0,
   shyph |-> 0, aiwords |-> 0, periods |-> 0, terms |-> 0, commas |-> 0,
   words |-> 2, informal |-> 0, lines |-> 1, promo |-> 0]

DocDash ==
  [key |-> "em-dash launch post", chars |-> 283, bytes |-> 285, blank |-> FALSE,
   sentLens |-> <<10, 27, 4>>, uniq |-> 37, tokens |-> 40, formula |-> 0,
   udash |-> 1, shyph |-> 0, aiwords |-> 0, periods |-> 3, terms |-> 3,
   commas |-> 4, words |-> 41, informal |-> 0, lines |-> 1, promo |-> 0]

DocBlank ==
  [key |-> "   ", chars |-> 3, bytes |-> 3, blank |-> TRUE,
   sentLens |-> <<>>, uniq |-> 0, tokens |-> 0, formula |-> 0, udash |-> 0,
   shyph |-> 0, aiwords |-> 0, periods |-> 0, terms |-> 0, commas |-> 0,
   words |-> 0, informal |-> 0, lines |-> 0, promo |-> 0]

DocLong ==
  [key |-> "a * 50001", chars |-> 50001, bytes |-> 50001, blank |-> FALSE,
   sentLens |-> <<1>>, uniq |-> 1, tokens |-> 1, formula |-> 0, udash |-> 0,
   shyph |-> 0, aiwords |-> 0, periods |-> 0, terms |-> 0, commas |-> 0,
   words |-> 1, informal |-> 0, lines |-> 1, promo |-> 0]

DocWide ==
  [key |-> "U+4E2D * 20000", chars |-> 20000, bytes |-> 60000, blank |-> FALSE,
   sentLens |-> <<1>>, uniq |-> 1, tokens |-> 1, formula |-> 0, udash |-> 0,
   shyph |-> 0, aiwords |-> 0, periods |-> 0, terms |-> 0, commas |-> 0,
   words |-> 1, informal |-> 0, lines |-> 1, promo |-> 0]

\* the documents requests carry
Docs == {DocCasual, DocDash, DocBlank, DocLong, DocWide}

\* request metadata (platform, post_id, author); "" stands for an absent Option
Metas ==
  {[platform |-> "twitter", post_id |-> "p1", author |-> "alice"],
   [platform |-> "linkedin", post_id |-> "", author |-> "bob"]}

(***************************************************************************)
(* services/heuristics.rs: text signal extractors                          *)
(***************************************************************************)
RECURSIVE SumSeq(_)
SumSeq(s) == IF s = <<>> THEN 0 ELSE Head(s) + SumSeq(Tail(s))

RECURSIVE SumSq(_)
SumSq(s) == IF s = <<>> THEN 0 ELSE Head(s) * Head(s) + SumSq(Tail(s))

\* n^2 * population variance of the sentence word counts
VarTimesN2(lens) == Len(lens) * SumSq(lens) - SumSeq(lens) * SumSeq(lens)

\* sentence_length_variance, as the fraction <<numerator, denominator>>
sentence_length_variance(doc) ==
  IF Len(doc.sentLens) < 2
  THEN <<50, 1>>
  ELSE <<VarTimesN2(doc.sentLens), Len(doc.sentLens) * Len(doc.sentLens)>>

\* type_token_ratio, as the fraction <<unique, total>>
type_token_ratio(doc) ==
  IF doc.tokens = 0 THEN <<1, 1>> ELSE <<doc.uniq, doc.tokens>>

\* a < p/q and a > p/q for a fraction a = <<num, den>> with den, q > 0
FracLt(a, p, q) == a[1] * q < p * a[2]
FracGt(a, p, q) == a[1] * q > p * a[2]

\* compute_burstiness: (std - mean)/(std + mean) remapped to [0,1], that is
\* std/(std + mean); kept as the pair of squares [sd2, mean2] (both times n^2),
\* the neutral value 0.5 being std = mean
compute_burstiness(doc) ==
  IF Len(doc.sentLens) < 3
  THEN [sd2 |-> 1, mean2 |-> 1]
  ELSE IF SumSeq(doc.sentLens) = 0
       THEN [sd2 |-> 1, mean2 |-> 1]
       ELSE [sd2 |-> VarTimesN2(doc.sentLens),
             mean2 |-> SumSeq(doc.sentLens) * SumSeq(doc.sentLens)]

\* burstiness < p/q, for 0 < p < q:  std*(q-p) < p*mean
BurstLt(b, p, q) == b.sd2 * (q - p) * (q - p) < p * p * b.mean2

count_formulaic_phrases(doc) == doc.formula

\* count_dashes_split: <<unicode dashes, spaced hyphens>>
count_dashes_split(doc) == <<doc.udash, doc.shyph>>

count_ai_vocabulary(doc) == doc.aiwords

\* punctuation_analysis: the vote (doubled score; -1 for None) and the signal
\* it pushes
punctuation_analysis(doc) ==
  IF Len(doc.sentLens) < 3 THEN [vote |-> -1, sig |-> <<>>]
  ELSE IF doc.terms = 0 THEN [vote |-> -1, sig |-> <<>>]
  ELSE IF 100 * doc.periods > 95 * doc.terms
       THEN [vote |-> 12, sig |-> <<"uniform_punctuation">>]
  ELSE IF doc.words > 0 /\ 100 * doc.commas > 15 * doc.words
       THEN [vote |-> 12, sig |-> <<"high_comma_frequency">>]
  ELSE [vote |-> -1, sig |-> <<>>]

count_informality(doc) == doc.informal

\* linebreak_ratio, as the fraction <<lines, sentences>>
linebreak_ratio(doc) ==
  IF doc.lines < 3 THEN <<0, 1>>
  ELSE IF Len(doc.sentLens) = 0 THEN <<0, 1>>
  ELSE <<doc.lines, Len(doc.sentLens)>>

count_promotional(doc) == doc.promo

(***************************************************************************)
(* services/heuristics.rs: analyze.  Each category yields its addition to  *)
(* score_sum (doubled), to weight_sum (doubled) and the signals it pushes. *)
(***************************************************************************)
Vote(ss, w, sig) == [ss |-> ss, w |-> w, sig |-> sig]
NoVote == Vote(0, 0, <<>>)

\* a prior of 1.0: score_sum = 1.0 * 1.5, weight_sum = 1.5
HeurPriorLow == Vote(3, 3, <<>>)

\* the same prior with weight 5.0
HeurPriorHeavy == Vote(30, 10, <<>>)

\* a neutral prior: score_sum = 5.0 * 1.5, weight_sum = 1.5
HeurPriorNeutral == Vote(15, 3, <<>>)

\* human-leaning prior: score_sum = 3.0 * 1.5, weight_sum = 1.5
HeurPrior == Vote(9, 3, <<>>)

CatSentenceVariance(doc) ==
  LET v == sentence_length_variance(doc) IN
  IF FracLt(v, 5, 1) THEN Vote(32, 4, <<"uniform_sentence_length">>)
  ELSE IF FracLt(v, 15, 1) THEN Vote(15, 3, <<"low_sentence_variance">>)
  ELSE IF FracGt(v, 50, 1) THEN Vote(2, 1, <<>>)
  ELSE NoVote

CatVocabulary(doc) ==
  LET ttr == type_token_ratio(doc) IN
  IF FracLt(ttr, 4, 10) THEN Vote(21, 3, <<"low_vocabulary_diversity">>)
  ELSE IF ~FracLt(ttr, 55, 100) THEN Vote(2, 1, <<>>)
  ELSE NoVote

CatBurstiness(doc) ==
  LET b == compute_burstiness(doc) IN
  IF BurstLt(b, 3, 10) THEN Vote(21, 3, <<"low_burstiness">>)
  ELSE IF ~BurstLt(b, 1, 2) THEN Vote(2, 1, <<>>)
  ELSE NoVote

CatFormulaic(doc) ==
  IF count_formulaic_phrases(doc) >= 3 THEN Vote(54, 6, <<"formulaic_phrases">>)
  ELSE IF count_formulaic_phrases(doc) >= 1
       THEN Vote(24, 4, <<"some_formulaic_phrases">>)
  ELSE NoVote

CatUnicodeDash(doc) ==
  IF count_dashes_split(doc)[1] >= 1 THEN Vote(90, 10, <<"em_en_dash">>)
  ELSE NoVote

CatSpacedHyphen(doc) ==
  IF count_dashes_split(doc)[2] >= 1 THEN Vote(40, 5, <<"spaced_hyphen">>)
  ELSE NoVote

CatAiVocabulary(doc) ==
  IF count_ai_vocabulary(doc) >= 3 THEN Vote(32, 4, <<"ai_vocabulary">>)
  ELSE IF count_ai_vocabulary(doc) >= 1 THEN Vote(18, 3, <<"some_ai_vocabulary">>)
  ELSE NoVote

CatPunctuation(doc) ==
  LET p == punctuation_analysis(doc) IN
  IF p.vote >= 0 THEN Vote(p.vote, 2, p.sig) ELSE Vote(0, 0, p.sig)

CatInformality(doc) ==
  IF count_informality(doc) >= 3 THEN Vote(6, 6, <<"informal_language">>)
  ELSE IF count_informality(doc) >= 1 THEN Vote(8, 4, <<"some_informal_markers">>)
  ELSE NoVote

CatLineBreaks(doc) ==
  LET lb == linebreak_ratio(doc) IN
  IF FracGt(lb, 8, 10) THEN Vote(40, 5, <<"line_per_sentence">>)
  ELSE IF FracGt(lb, 5, 10) THEN Vote(28, 4, <<"heavy_line_breaks">>)
  ELSE NoVote

\* the promotional vote cast without its signal
CatPromotionalSilent(doc) ==
  IF count_promotional(doc) >= 2 THEN Vote(45, 5, <<>>)
  ELSE IF count_promotional(doc) >= 1 THEN Vote(18, 3, <<"some_promotional">>)
  ELSE NoVote

CatPromotional(doc) ==
  IF count_promotional(doc) >= 2 THEN Vote(45, 5, <<"promotional_pattern">>)
  ELSE IF count_promotional(doc) >= 1 THEN Vote(18, 3, <<"some_promotional">>)
  ELSE NoVote

\* the short-text signal voting 5.0 with weight 1.0
CatShortTextVoting(doc) ==
  IF doc.words < 20 THEN Vote(10, 2, <<"short_text_low_confidence">>) ELSE NoVote

CatShortText(doc) ==
  IF doc.words < 20 THEN Vote(0, 0, <<"short_text_low_confidence">>) ELSE NoVote

\* the categories in evaluation order
HeurVotes(doc) ==
  <<HeurPrior, CatSentenceVariance(doc), CatVocabulary(doc), CatBurstiness(doc),
    CatFormulaic(doc), CatUnicodeDash(doc), CatSpacedHyphen(doc),
    CatAiVocabulary(doc), CatPunctuation(doc), CatInformality(doc),
    CatLineBreaks(doc), CatPromotional(doc), CatShortText(doc)>>

\* score_sum, weight_sum and signals after the first n votes, in order
RECURSIVE ScoreSum(_, _)
ScoreSum(votes, n) ==
  IF n = 0 THEN 0 ELSE ScoreSum(votes, n - 1) + votes[n].ss

RECURSIVE WeightSum(_, _)
WeightSum(votes, n) ==
  IF n = 0 THEN 0 ELSE WeightSum(votes, n - 1) + votes[n].w

RECURSIVE Signals(_, _)
Signals(votes, n) ==
  IF n = 0 THEN <<>> ELSE Signals(votes, n - 1) \o votes[n].sig

Accumulate(votes) ==
  Vote(ScoreSum(votes, Len(votes)), WeightSum(votes, Len(votes)),
       Signals(votes, Len(votes)))

Min(a, b) == IF a < b THEN a ELSE b
Max(a, b) == IF a > b THEN a ELSE b

\* f64::round (half away from zero) of num/den, for num >= 0 and den > 0
RoundDiv(num, den) == (2 * num + den) \div (2 * den)

\* `x as u8` of a non-negative rounded f64: saturating
AsU8(x) == Max(0, Min(x, 255))

\* without the minimum score for a unicode dash
HeuristicsAnalyzeNoOverride(doc) ==
  LET acc == Accumulate(HeurVotes(doc))
      rounded == AsU8(RoundDiv(acc.ss, acc.w))
  IN [score |-> Min(rounded, 10), signals |-> acc.sig]

\* the score sum neither divided by the weight sum nor capped
HeuristicsAnalyzeUnweighted(doc) ==
  LET acc == Accumulate(HeurVotes(doc))
      rounded == AsU8(RoundDiv(acc.ss, 2))
      final_score == IF count_dashes_split(doc)[1] >= 1 /\ rounded < 8
                     THEN 8 ELSE rounded
  IN [score |-> final_score, signals |-> acc.sig]

\* heuristics::analyze: HeuristicResult {score, signals}
HeuristicsAnalyze(doc) ==
  LET acc == Accumulate(HeurVotes(doc))
      rounded == AsU8(RoundDiv(acc.ss, acc.w))
      final_score == IF count_dashes_split(doc)[1] >= 1 /\ rounded < 8
                     THEN 8 ELSE rounded
  IN [score |-> Min(final_score, 10), signals |-> acc.sig]

(***************************************************************************)
(* models.rs: score_to_label                                               *)
(***************************************************************************)
\* the first bucket one point wider
score_to_label_wide(score, heuristics_only) ==
  IF score \in 0..4 THEN "human"
  ELSE IF score \in 5..5 THEN IF heuristics_only THEN "uncertain" ELSE "mixed"
  ELSE IF score \in 6..7 THEN "likely_ai"
  ELSE IF score \in 8..10 THEN "ai"
  ELSE "unknown"

score_to_label(score, heuristics_only) ==
  IF heuristics_only
  THEN IF score \in 0..3 THEN "human"
       ELSE IF score \in 4..5 THEN "uncertain"
       ELSE IF score \in 6..7 THEN "likely_ai"
       ELSE IF score \in 8..10 THEN "ai"
       ELSE "unknown"
  ELSE IF score \in 0..3 THEN "human"
       ELSE IF score \in 4..5 THEN "mixed"
       ELSE IF score \in 6..7 THEN "likely_ai"
       ELSE IF score \in 8..10 THEN "ai"
       ELSE "unknown"

(***************************************************************************)
(* config.rs: Config::from_env.  An environment gives PRIMARY_AI_PROVIDER  *)
(* and the two credentials ("" when unset).                                *)
(***************************************************************************)
\* str::to_lowercase on the override values the environments use
to_lowercase(s) ==
  CASE s = "Anthropic" -> "anthropic"
    [] s = "CLAUDE" -> "claude"
    [] s = "OpenRouter" -> "openrouter"
    [] OTHER -> s

Envs ==
  {[primary |-> "", anthropic_api_key |-> "sk-ant-api03-k", openrouter_api_key |-> ""],
   [primary |-> "OpenRouter", anthropic_api_key |-> "", openrouter_api_key |-> "sk-or-k"],
   [primary |-> "CLAUDE", anthropic_api_key |-> "", openrouter_api_key |-> "sk-or-k"],
   [primary |-> "", anthropic_api_key |-> "", openrouter_api_key |-> ""]}

\* no override and no credential
NoEnv == [primary |-> "", anthropic_api_key |-> "", openrouter_api_key |-> ""]

\* the environments startup is evaluated on: every override value in lower
\* and mixed case, two values that name no provider, and each credential
\* set or empty
StartEnvs ==
  [primary : {"", "anthropic", "claude", "openrouter", "Anthropic", "CLAUDE",
              "OpenRouter", "none", "gemini"},
   anthropic_api_key : {"", "sk-ant-api03-k"},
   openrouter_api_key : {"", "sk-or-k"}]

\* the override compared as it is written, without to_lowercase
SelectProviderCaseSensitive(env) ==
  LET p == env.primary IN
  IF p \in {"anthropic", "claude"}
  THEN IF env.anthropic_api_key = "" THEN "panic" ELSE "Anthropic"
  ELSE IF p = "openrouter"
  THEN IF env.openrouter_api_key = "" THEN "panic" ELSE "OpenRouter"
  ELSE IF env.anthropic_api_key # "" THEN "Anthropic"
  ELSE IF env.openrouter_api_key # "" THEN "OpenRouter"
  ELSE "None"

\* the selected provider, or "panic" when startup fails
SelectProvider(env) ==
  LET p == to_lowercase(env.primary) IN
  IF p \in {"anthropic", "claude"}
  THEN IF env.anthropic_api_key = "" THEN "panic" ELSE "Anthropic"
  ELSE IF p = "openrouter"
  THEN IF env.openrouter_api_key = "" THEN "panic" ELSE "OpenRouter"
  ELSE IF env.anthropic_api_key # "" THEN "Anthropic"
  ELSE IF env.openrouter_api_key # "" THEN "OpenRouter"
  ELSE "None"

ConfigFromEnv(env) ==
  [llm_provider |-> SelectProvider(env),
   anthropic_api_key |-> env.anthropic_api_key,
   openrouter_api_key |-> env.openrouter_api_key]

\* the configurations the server runs analyze requests with: startup did not
\* panic, and detector::analyze dispatches on Anthropic and OpenRouter only
RunConfigs ==
  {c \in {ConfigFromEnv(e) : e \in Envs} : c.llm_provider \in {"Anthropic", "OpenRouter"}}

\* every configuration startup can end with (from_env did not panic),
\* LlmProvider::None included
StartConfigs ==
  {c \in {ConfigFromEnv(e) : e \in Envs} : c.llm_provider # "panic"}

\* detector::analyze lines 108-111: `match config.llm_provider` has the arms
\* Anthropic and OpenRouter and none for LlmProvider::None; what serves a
\* request under None is not defined by the source, and is either adapter
MatchArms(c) ==
  IF c.llm_provider = "None" THEN {"Anthropic", "OpenRouter"}
  ELSE {c.llm_provider}

(***************************************************************************)
(* services/detector.rs: parse_score (and its inline copy in               *)
(* services/openrouter.rs).  A model reply is described by what the parser *)
(* reads: whether the trimmed reply as a whole is a JSON object, the byte  *)
(* index of its first '{' and of its last '}' (-1: none), whether the      *)
(* slice between them is a JSON object, and the numbers the object gives   *)
(* (confidence in hundredths).                                             *)
(***************************************************************************)
Replies ==
  {[whole |-> TRUE, open |-> 0, close |-> 31, inner |-> TRUE,
    score |-> 2, confidence |-> 50],
   [whole |-> FALSE, open |-> 8, close |-> 40, inner |-> TRUE,
    score |-> 12, confidence |-> 150],
   [whole |-> FALSE, open |-> -1, close |-> -1, inner |-> FALSE,
    score |-> 0, confidence |-> 0],
   [whole |-> FALSE, open |-> 5, close |-> 0, inner |-> FALSE,
    score |-> 0, confidence |-> 0]}

\* serde_json::from_str::<ScoreResponse>: score is a u8
DeserializeOk(wellFormed, reply) == wellFormed /\ reply.score \in 0..255

Clamp(x, lo, hi) == Max(lo, Min(x, hi))

LlmOk(score, confidence) == [kind |-> "ok", score |-> score, confidence |-> confidence]
LlmErr == [kind |-> "err", score |-> 0, confidence |-> 0]
\* &content[start..end] with start > end: the slice panics
LlmPanic == [kind |-> "panic", score |-> 0, confidence |-> 0]

parse_score(reply) ==
  LET result == LlmOk(Min(reply.score, 10), Clamp(reply.confidence, 0, 100)) IN
  IF DeserializeOk(reply.whole, reply) THEN result
  ELSE IF reply.open = -1 THEN LlmErr
  ELSE IF reply.close = -1 THEN LlmErr
  ELSE IF reply.open > reply.close + 1 THEN LlmPanic
  ELSE IF reply.open = reply.close + 1 THEN LlmErr
  ELSE IF DeserializeOk(reply.inner, reply) THEN result
  ELSE LlmErr

(***************************************************************************)
(* services/anthropic.rs, services/openrouter.rs: analyze.  What the       *)
(* provider does is an input: the transport fails, the status is not a     *)
(* success, the body is not the envelope or has no content, or the         *)
(* envelope carries a reply.                                               *)
(***************************************************************************)
NoReply ==
  [whole |-> FALSE, open |-> -1, close |-> -1, inner |-> FALSE,
   score |-> 0, confidence |-> 0]

ProviderAnswers ==
  {[kind |-> k, reply |-> NoReply] :
      k \in {"transport_error", "http_error", "bad_body", "empty_content"}}
  \cup {[kind |-> "reply", reply |-> r] : r \in Replies}

ProviderKey(config) ==
  IF config.llm_provider = "Anthropic" THEN config.anthropic_api_key
  ELSE config.openrouter_api_key

\* the adapter's result for one provider answer
LlmAnalyze(config, answer) ==
  IF ProviderKey(config) = "" THEN LlmErr
  ELSE IF answer.kind # "reply" THEN LlmErr
  ELSE parse_score(answer.reply)

\* the AppError variant the adapter's errors carry
LlmErrorKind(config) ==
  IF config.llm_provider = "Anthropic" THEN "LlmApi" ELSE "OpenRouter"

(***************************************************************************)
(* serde_json: the signal list is stored as JSON text.  The text is kept   *)
(* as its sequence of tokens.                                              *)
(***************************************************************************)
RECURSIVE JsonItems(_)
JsonItems(signals) ==
  IF signals = <<>> THEN <<>>
  ELSE IF Len(signals) = 1 THEN <<"\"", Head(signals), "\"">>
  ELSE <<"\"", Head(signals), "\"", ",">> \o JsonItems(Tail(signals))

\* serde_json::to_string(&Vec<String>)
JsonToString(signals) == <<"[">> \o JsonItems(signals) \o <<"]">>

\* the items of a JSON array after its '[': [ok, items]
RECURSIVE JsonParseItems(_, _)
JsonParseItems(toks, acc) ==
  IF Len(toks) >= 4 /\ toks[1] = "\"" /\ toks[3] = "\""
  THEN IF toks[4] = "]" /\ Len(toks) = 4
       THEN [ok |-> TRUE, items |-> Append(acc, toks[2])]
       ELSE IF toks[4] = ","
       THEN JsonParseItems(SubSeq(toks, 5, Len(toks)), Append(acc, toks[2]))
       ELSE [ok |-> FALSE, items |-> <<>>]
  ELSE [ok |-> FALSE, items |-> <<>>]

\* serde_json::from_str::<Vec<String>>(..).unwrap_or_default()
JsonFromStrOrDefault(toks) ==
  IF Len(toks) >= 2 /\ toks[1] = "["
  THEN IF toks = <<"[", "]">> THEN <<>>
       ELSE LET parsed == JsonParseItems(Tail(toks), <<>>) IN
            IF parsed.ok THEN parsed.items ELSE <<>>
  ELSE <<>>

(***************************************************************************)
(* services/detector.rs: hash_content.  SHA-256 of the content bytes: one  *)
(* fingerprint per byte string; the metadata is not hashed.                *)
(***************************************************************************)
hash_content(doc) == <<"sha256", doc.key>>

(***************************************************************************)
(* db.rs: the table `analyses`, a sequence of rows in insertion order.     *)
(***************************************************************************)
\* migrations/001_init.sql (CREATE TABLE analyses): content_hash carries a
\* UNIQUE constraint, or it does not
Schemas == {[unique_content_hash |-> u] : u \in BOOLEAN}

RowsWithHash(rows, h) == {i \in 1..Len(rows) : rows[i].content_hash = h}

\* mutation: ORDER BY created_at ASC
find_by_hash_asc(rows, h, queryOk) ==
  IF ~queryOk THEN {}
  ELSE {rows[i] : i \in {j \in RowsWithHash(rows, h) :
                           \A k \in RowsWithHash(rows, h) :
                              rows[k].created_at >= rows[j].created_at}}

\* find_by_hash: WHERE content_hash = ? ORDER BY created_at DESC LIMIT 1.
\* The rows the query can return (rows with equal created_at are in no
\* defined order); the empty set is None.  A failed query is None (.ok()).
find_by_hash(rows, h, queryOk) ==
  IF ~queryOk THEN {}
  ELSE {rows[i] : i \in {j \in RowsWithHash(rows, h) :
                           \A k \in RowsWithHash(rows, h) :
                              rows[k].created_at <= rows[j].created_at}}

\* mutation: INSERT OR REPLACE on the fingerprint
insert_or_replace(rows, record) ==
  Append(SelectSeq(rows, LAMBDA row : row.content_hash # record.content_hash), record)

\* insert_analysis_full: INSERT INTO analyses ... ; the rows after a
\* successful insert
insert_analysis_full(rows, record) == Append(rows, record)

\* whether the table accepts the row (id is the primary key)
InsertAccepted(sch, rows, record) ==
  /\ \A i \in 1..Len(rows) : rows[i].id # record.id
  /\ (sch.unique_content_hash => RowsWithHash(rows, record.content_hash) = {})

(***************************************************************************)
(* services/detector.rs: analyze, the values it builds                     *)
(***************************************************************************)
\* i32 -> u8 (`as u8`) and u8 -> i32 (`as i32`)
I32AsU8(x) == x % 256
U8AsI32(x) == x

NoBody ==
  [score |-> 0, confidence |-> 0, label |-> "", llm_score |-> <<>>,
   heuristic_score |-> 0, signals |-> <<>>]

RespNone == [kind |-> "none", err |-> "", body |-> NoBody]
RespOk(body) == [kind |-> "ok", err |-> "", body |-> body]
RespErr(e) == [kind |-> "err", err |-> e, body |-> NoBody]
\* the request task panicked: the client gets no response
RespPanic == [kind |-> "panic", err |-> "", body |-> NoBody]

\* mutation: the two sub-scores are read from each other's column
CachedResponseSwapped(cached) ==
  [score |-> I32AsU8(cached.score),
   confidence |-> cached.confidence,
   label |-> cached.label,
   llm_score |-> <<I32AsU8(cached.heuristic_score)>>,
   heuristic_score |-> IF cached.llm_score = <<>> THEN 0
                       ELSE I32AsU8(cached.llm_score[1]),
   signals |-> JsonFromStrOrDefault(cached.signals)]

\* the response rebuilt from a cached row (lines 89-99)
CachedResponse(cached) ==
  [score |-> I32AsU8(cached.score),
   confidence |-> cached.confidence,
   label |-> cached.label,
   llm_score |-> IF cached.llm_score = <<>> THEN <<>>
                 ELSE <<I32AsU8(cached.llm_score[1])>>,
   heuristic_score |-> I32AsU8(cached.heuristic_score),
   signals |-> JsonFromStrOrDefault(cached.signals)]

\* the weights exchanged: 40% LLM, 60% heuristic
CombinedScoreSwapped(llm_score, heuristic_score) ==
  Min(AsU8(RoundDiv(4 * llm_score + 6 * heuristic_score, 10)), 10)

\* (llm.score * 0.6 + heuristic.score * 0.4).round() as u8, then .min(10)
CombinedScore(llm_score, heuristic_score) ==
  Min(AsU8(RoundDiv(6 * llm_score + 4 * heuristic_score, 10)), 10)

\* without the baseline of 0.3
CombinedConfidenceNoFloor(llm_confidence) == Min(7 * llm_confidence, 1000)

\* (llm.confidence * 0.7 + 0.3).min(1.0), in thousandths
CombinedConfidence(llm_confidence) == Min(7 * llm_confidence + 300, 1000)

\* the AnalysisRecord of lines 125-138
BuildRecord(id, doc, meta, llm, heur, now) ==
  LET final_score == CombinedScore(llm.score, heur.score) IN
  [id |-> id,
   content_hash |-> hash_content(doc),
   platform |-> meta.platform,
   post_id |-> meta.post_id,
   author |-> meta.author,
   score |-> U8AsI32(final_score),
   confidence |-> CombinedConfidence(llm.confidence),
   label |-> score_to_label(final_score, FALSE),
   llm_score |-> <<U8AsI32(llm.score)>>,
   heuristic_score |-> U8AsI32(heur.score),
   signals |-> JsonToString(heur.signals),
   created_at |-> now]

\* the AnalyzeResponse of lines 142-151
BuildResponse(llm, heur) ==
  LET final_score == CombinedScore(llm.score, heur.score) IN
  [score |-> final_score,
   confidence |-> CombinedConfidence(llm.confidence),
   label |-> score_to_label(final_score, FALSE),
   llm_score |-> <<llm.score>>,
   heuristic_score |-> heur.score,
   signals |-> heur.signals]

(***************************************************************************)
(* State                                                                   *)
(*   config  the Config built at startup                                   *)
(*   schema  the schema of `analyses` the migration created                *)
(*   clock   chrono::Utc::now(), in seconds                                *)
(*   store   the rows of `analyses`                                        *)
(*   req     per request: where its handler stands (pc), its document and  *)
(*           metadata, what its cache lookup saw, its heuristic task, its  *)
(*           LLM call, the record it built, its insert, its response       *)
(*   calc    one evaluation of a function of the engine on its own: the    *)
(*           function, its argument and, once evaluated, its result        *)
(***************************************************************************)
VARIABLES config, schema, clock, store, req, calc

vars == <<config, schema, clock, store, req, calc>>

NoDoc == [DocBlank EXCEPT !.key = ""]
NoMeta == [platform |-> "", post_id |-> "", author |-> ""]
NoRecord ==
  [id |-> 0, content_hash |-> <<"sha256", "">>, platform |-> "", post_id |-> "",
   author |-> "", score |-> 0, confidence |-> 0, label |-> "", llm_score |-> <<>>,
   heuristic_score |-> 0, signals |-> <<>>, created_at |-> 0]
LlmNone == [kind |-> "none", score |-> 0, confidence |-> 0]
LlmPending == [kind |-> "pending", score |-> 0, confidence |-> 0]
\* the request was sent and the provider will never answer it
LlmSilent == [kind |-> "silent", score |-> 0, confidence |-> 0]

IdleRequest ==
  [pc |-> "idle", doc |-> NoDoc, meta |-> NoMeta,
   lookup |-> "none", served |-> 0,
   heur |-> "none", llm |-> LlmNone, rec |-> NoRecord,
   insert |-> "none", resp |-> RespNone]

NoHeur == [score |-> 0, signals |-> <<>>]

\* no function is being evaluated on its own
NoCalc ==
  [op |-> "none", doc |-> NoDoc, reply |-> NoReply, llm |-> LlmNone,
   heur |-> NoHeur, rec |-> NoRecord, body |-> NoBody, env |-> NoEnv,
   cfg |-> ConfigFromEnv(NoEnv), done |-> FALSE]

\* the server after startup: no request yet, the table empty
InitServer ==
  /\ config \in RunConfigs
  /\ schema \in Schemas
  /\ clock = 0
  /\ store = <<>>
  /\ req = [r \in Requests |-> IdleRequest]

Init ==
  /\ InitServer
  /\ calc = NoCalc

\* the handler returns: its response is final and its locals are dropped
\* (what is kept of them is the record of what happened)
Return(r, fields, resp) ==
  [fields EXCEPT !.pc = "done", !.resp = resp, !.rec = NoRecord,
                 !.llm = [kind |-> fields.llm.kind, score |-> 0, confidence |-> 0]]

(***************************************************************************)
(* routes/analyze.rs: analyze, up to the call of detector::analyze.        *)
(***************************************************************************)
ContentValid(doc) == ~doc.blank /\ ~(doc.bytes > MAX_CONTENT_LEN)

\* mutation: the emptiness check is missing
ValidateLengthOnly(r, fields) ==
  IF fields.doc.bytes > MAX_CONTENT_LEN
  THEN Return(r, fields, RespErr("BadRequest"))
  ELSE [fields EXCEPT !.pc = "lookup"]

\* the handler's state after its two checks
Validate(r, fields) ==
  IF fields.doc.blank THEN Return(r, fields, RespErr("BadRequest"))
  ELSE IF fields.doc.bytes > MAX_CONTENT_LEN
       THEN Return(r, fields, RespErr("BadRequest"))
  ELSE [fields EXCEPT !.pc = "lookup"]

\* a client's request arrives (in the order of the clients' numbers)
Receive(r) ==
  /\ r \in Clients
  /\ req[r].pc = "idle"
  /\ \A q \in Requests : q < r => req[q].pc # "idle"
  /\ \E doc \in Docs, meta \in Metas :
       req' = [req EXCEPT ![r] = Validate(r, [req[r] EXCEPT !.doc = doc, !.meta = meta])]
  /\ UNCHANGED <<config, schema, clock, store, calc>>

\* a later request arrives: every earlier request has returned, and it
\* carries a document one of them carried
Repeat(r) ==
  /\ r \in Repeats
  /\ req[r].pc = "idle"
  /\ \A q \in Requests : q < r => req[q].pc = "done"
  /\ \E q \in Requests, meta \in Metas :
       /\ q < r
       /\ req' = [req EXCEPT ![r] =
                    Validate(r, [req[r] EXCEPT !.doc = req[q].doc, !.meta = meta])]
  /\ UNCHANGED <<config, schema, clock, store, calc>>

(***************************************************************************)
(* detector::analyze lines 85-106: the cache lookup; a hit returns the     *)
(* cached response, a miss spawns the heuristic task and sends the LLM     *)
(* request.                                                                *)
(***************************************************************************)
\* the handler's possible states after the lookup
LookupResult(r, fields, rows, queryOk) ==
  LET found == find_by_hash(rows, hash_content(fields.doc), queryOk) IN
  IF found # {}
  THEN {Return(r, [fields EXCEPT !.lookup = "hit", !.served = cached.id],
               RespOk(CachedResponse(cached))) : cached \in found}
  ELSE {[fields EXCEPT !.lookup = IF queryOk THEN "miss" ELSE "read_error",
                       !.heur = "running",
                       !.llm = LlmPending,
                       !.pc = "llm"]}

\* mutation: the cache is not consulted
LookupSkipsCache(r) ==
  /\ req[r].pc = "lookup"
  /\ \E queryOk \in BOOLEAN : \E next \in LookupResult(r, req[r], <<>>, queryOk) :
       req' = [req EXCEPT ![r] = next]
  /\ UNCHANGED <<config, schema, clock, store, calc>>

\* mutation: a failed query is returned as a Database error
LookupPropagatesReadError(r) ==
  /\ req[r].pc = "lookup"
  /\ \E queryOk \in BOOLEAN :
       IF queryOk
       THEN \E next \in LookupResult(r, req[r], store, TRUE) :
              req' = [req EXCEPT ![r] = next]
       ELSE req' = [req EXCEPT ![r] =
                      Return(r, [req[r] EXCEPT !.lookup = "read_error"],
                             RespErr("Database"))]
  /\ UNCHANGED <<config, schema, clock, store, calc>>

\* mutation: a request waits while another one analyses the same fingerprint
LookupSingleFlight(r) ==
  /\ req[r].pc = "lookup"
  /\ \A q \in Requests \ {r} :
       ~(/\ req[q].pc \in {"llm", "join", "insert"}
         /\ hash_content(req[q].doc) = hash_content(req[r].doc))
  /\ \E queryOk \in BOOLEAN : \E next \in LookupResult(r, req[r], store, queryOk) :
       req' = [req EXCEPT ![r] = next]
  /\ UNCHANGED <<config, schema, clock, store, calc>>

Lookup(r) ==
  /\ req[r].pc = "lookup"
  /\ \E queryOk \in BOOLEAN : \E next \in LookupResult(r, req[r], store, queryOk) :
       req' = [req EXCEPT ![r] = next]
  /\ UNCHANGED <<config, schema, clock, store, calc>>

(***************************************************************************)
(* detector::analyze lines 112-138, entered once the LLM result is there   *)
(* and the heuristic task has ended: a JoinError is an Internal error,     *)
(* else combine and build the record (created_at is read here) and go on   *)
(* to the insert.                                                          *)
(***************************************************************************)
Combine(r, fields, now) ==
  IF fields.heur = "panicked"
  THEN Return(r, fields, RespErr("Internal"))
  ELSE [fields EXCEPT
          !.rec = BuildRecord(r, fields.doc, fields.meta, fields.llm,
                              HeuristicsAnalyze(fields.doc), now),
          !.pc = "insert"]

\* mutation: the handle is not awaited
JoinedAlways(fields) == TRUE

\* whether the handler may go past `heuristic_handle.await`
Joined(fields) == fields.heur # "running"

(***************************************************************************)
(* The spawn_blocking task of line 105: heuristics::analyze runs to its    *)
(* end, or the task panics / is cancelled (JoinError).  A handler waiting  *)
(* on the handle goes on to combine.                                       *)
(***************************************************************************)
HeuristicTask(r) ==
  /\ req[r].heur = "running"
  /\ req[r].pc \in {"llm", "join"}
  /\ \E completed \in BOOLEAN :
       LET ended == [req[r] EXCEPT
                       !.heur = IF completed THEN "ok" ELSE "panicked"] IN
       req' = [req EXCEPT ![r] =
                 IF req[r].pc = "join" THEN Combine(r, ended, clock) ELSE ended]
  /\ UNCHANGED <<config, schema, clock, store, calc>>

(***************************************************************************)
(* detector::analyze lines 108-114: the adapter returns; `?` returns its   *)
(* error at once, dropping the JoinHandle (the task is detached, its       *)
(* result is never read); else the handler awaits the heuristic task.      *)
(***************************************************************************)
\* mutation: an LLM error falls back to the heuristic score alone
AfterLlmFallsBack(r, fields, llm_result, now, errKind) ==
  LET got == [fields EXCEPT !.llm = llm_result]
  IN IF Joined(got) THEN Combine(r, got, now) ELSE [got EXCEPT !.pc = "join"]

\* the handler's state once the adapter has returned llm_result
AfterLlm(r, fields, llm_result, now, errKind) ==
  LET got == [fields EXCEPT !.llm = llm_result]
      dropped == [got EXCEPT !.heur = "detached"]
  IN IF llm_result.kind = "ok"
     THEN IF Joined(got) THEN Combine(r, got, now) ELSE [got EXCEPT !.pc = "join"]
     ELSE IF llm_result.kind = "panic" THEN Return(r, dropped, RespPanic)
     ELSE Return(r, dropped, RespErr(errKind))

LlmReturn(r) ==
  /\ req[r].pc = "llm"
  /\ req[r].llm.kind = "pending"
  /\ \E answer \in ProviderAnswers : \E arm \in MatchArms(config) :
       LET served == [config EXCEPT !.llm_provider = arm] IN
       req' = [req EXCEPT ![r] =
                 AfterLlm(r, req[r], LlmAnalyze(served, answer), clock,
                          LlmErrorKind(served))]
  /\ UNCHANGED <<config, schema, clock, store, calc>>

(***************************************************************************)
(* anthropic.rs lines 67-71, openrouter.rs lines 85-93: `.send().await` on *)
(* the Client that main builds with Client::new() (no timeout set, none    *)
(* around the call): when the provider accepts the request and never       *)
(* answers, the await never completes.                                     *)
(***************************************************************************)
ProviderSilent(r) ==
  /\ req[r].pc = "llm"
  /\ req[r].llm.kind = "pending"
  /\ req' = [req EXCEPT ![r].llm = LlmSilent]
  /\ UNCHANGED <<config, schema, clock, store, calc>>

(***************************************************************************)
(* detector::analyze lines 140-151: the insert; `?` returns its error,     *)
(* else the computed response is returned.                                 *)
(***************************************************************************)
InsertResult(r, fields, inserted) ==
  IF inserted
  THEN Return(r, [fields EXCEPT !.insert = "ok"],
              RespOk(BuildResponse(fields.llm, HeuristicsAnalyze(fields.doc))))
  ELSE Return(r, [fields EXCEPT !.insert = "failed"], RespErr("Database"))

Insert(r) ==
  /\ req[r].pc = "insert"
  /\ \E inserted \in BOOLEAN :
       /\ inserted => InsertAccepted(schema, store, req[r].rec)
       /\ store' = IF inserted THEN insert_analysis_full(store, req[r].rec) ELSE store
       /\ req' = [req EXCEPT ![r] = InsertResult(r, req[r], inserted)]
  /\ UNCHANGED <<config, schema, clock, calc>>

\* a second passes
Tick ==
  /\ clock < MaxClock
  /\ clock' = clock + 1
  /\ UNCHANGED <<config, schema, store, req, calc>>

\* the steps of the handlers and of the clock
Handle ==
  \/ \E r \in Requests : Lookup(r)
  \/ \E r \in Requests : HeuristicTask(r)
  \/ \E r \in Requests : LlmReturn(r)
  \/ \E r \in Requests : Insert(r)
  \/ Tick

\* concurrent clients
Next ==
  \/ \E r \in Requests : Receive(r)
  \/ Handle

Spec == Init /\ [][Next]_vars

\* concurrent clients, then repeated documents
NextRepeat ==
  \/ \E r \in Requests : Receive(r)
  \/ \E r \in Requests : Repeat(r)
  \/ Handle

SpecRepeat == Init /\ [][NextRepeat]_vars

\* concurrent clients, and a provider that may stay silent
NextNet ==
  \/ \E r \in Requests : Receive(r)
  \/ \E r \in Requests : ProviderSilent(r)
  \/ Handle

SpecNet == Init /\ [][NextNet]_vars

\* the server started under any configuration, LlmProvider::None included
InitAnyConfig ==
  /\ config \in StartConfigs
  /\ schema \in Schemas
  /\ clock = 0
  /\ store = <<>>
  /\ req = [r \in Requests |-> IdleRequest]
  /\ calc = NoCalc

SpecAnyConfig == InitAnyConfig /\ [][Next]_vars

(***************************************************************************)
(* The functions of the engine on their own: one evaluation of the         *)
(* combination step, of heuristics::analyze or of parse_score, over every  *)
(* argument of a bounded set, in a server that serves no request.          *)
(***************************************************************************)
\* the confidences an LlmResult is combined with, in hundredths
LlmConfidences == {0, 50, 100}

\* the arguments of the combination step: an LlmResult (score clamped to
\* 0..10 by parse_score) and a HeuristicResult (score 0..10)
CombineInputs ==
  {[NoCalc EXCEPT !.op = "combine", !.llm = LlmOk(l, c),
                  !.heur = [score |-> h, signals |-> <<"ai_vocabulary">>]] :
     l \in 0..10, h \in 0..10, c \in LlmConfidences}

\* sentence word counts of the texts heuristics::analyze is evaluated on:
\* no sentence (only terminators), one, two, three and more sentences, from
\* uniform to very varied lengths, below and above 20 words in all
HeurShapes ==
  {<<>>, <<2>>, <<6, 6>>, <<3, 9>>, <<3, 12>>, <<1, 17>>,
   <<6, 6, 6>>, <<1, 6, 17>>, <<1, 1, 17>>, <<10, 27, 4>>,
   <<8, 8, 8, 8>>, <<1, 1, 1, 40>>, <<4, 9, 5, 8, 6>>}

\* what a text is made of: its sentences, whether it has a unicode dash and
\* a spaced hyphen, how many formulaic phrases, AI words, promotional
\* patterns and slang words, how varied its vocabulary is, whether every
\* sentence ends with a period, whether commas are frequent, its lines
TextParams ==
  [shape : HeurShapes, udash : {0, 1}, shyph : {0, 1}, formula : {0, 1, 3},
   aiwords : {0, 1, 3}, promo : {0, 2}, informal : {0, 1, 3},
   vocabulary : {"few", "half", "all"}, allperiods : BOOLEAN,
   manycommas : BOOLEAN, lines : {1, 3}]

\* the statistics the extractors count on such a text: words are plain,
\* every sentence ends with one terminator, the spaced hyphen is a word of
\* its sentence with an empty token, the dash is attached to a word
TextDoc(x) ==
  LET n == Len(x.shape)
      words == IF n = 0 THEN 1 ELSE SumSeq(x.shape)
      tokens == IF n = 0 THEN 0 ELSE words - x.shyph
      need == x.formula + x.aiwords + 2 * x.promo + x.informal
      terms == Max(n, 1)
  IN [key |-> "text", chars |-> 6 * words, bytes |-> 6 * words + 2 * x.udash,
      blank |-> FALSE, sentLens |-> x.shape,
      uniq |-> IF tokens = 0 THEN 0
               ELSE IF x.vocabulary = "few" THEN Max(1, need)
               ELSE IF x.vocabulary = "half" THEN (tokens + 1) \div 2
               ELSE tokens,
      tokens |-> tokens, formula |-> x.formula, udash |-> x.udash,
      shyph |-> x.shyph, aiwords |-> x.aiwords,
      periods |-> IF x.allperiods THEN terms ELSE terms - 1,
      terms |-> terms,
      commas |-> IF x.manycommas THEN words \div 4 + 1 ELSE 0,
      words |-> words, informal |-> x.informal, lines |-> x.lines,
      promo |-> x.promo]

\* a text with these statistics exists: each phrase, AI word and slang word
\* counted is a different word of the text, a spaced hyphen stands between
\* two words of a sentence, every line has a word, and a text without a
\* sentence has nothing but terminators
Realisable(d) ==
  /\ d.formula + d.aiwords + 2 * d.promo + d.informal <= d.uniq
  /\ d.uniq <= d.tokens
  /\ d.shyph = 1 => \E i \in 1..Len(d.sentLens) : d.sentLens[i] >= 3
  /\ d.lines <= d.words
  /\ d.sentLens = <<>> => d.udash = 0 /\ d.commas = 0

HeurDocs == {d \in {TextDoc(x) : x \in TextParams} : Realisable(d)}

HeurInputs == {[NoCalc EXCEPT !.op = "heuristics", !.doc = d] : d \in HeurDocs}

\* replies whose JSON object carries a numeric score and confidence (in
\* hundredths), bare or wrapped in other text, within and outside the
\* rubric's bounds and the range of a u8
ParseReplies ==
  {[whole |-> bare, open |-> IF bare THEN 0 ELSE 8,
    close |-> IF bare THEN 31 ELSE 40, inner |-> TRUE,
    score |-> sc, confidence |-> cf] :
     bare \in BOOLEAN, sc \in {-1, 0, 7, 10, 11, 255, 256},
     cf \in {-50, 0, 50, 100, 150}}

\* replies that carry no JSON object: no brace at all, only '{', only '}',
\* "}{", the last '}' before the first '{', and braces around other text
MalformedReplies ==
  {[whole |-> FALSE, open |-> o, close |-> c, inner |-> FALSE,
    score |-> 0, confidence |-> 0] :
     o \in {-1, 0, 1, 5}, c \in {-1, 0, 9}}

ParseInputs ==
  {[NoCalc EXCEPT !.op = "parse", !.reply = r] :
     r \in ParseReplies \cup MalformedReplies}

ConfigInputs == {[NoCalc EXCEPT !.op = "config", !.env = e] : e \in StartEnvs}

CalcInputs == CombineInputs \cup HeurInputs \cup ParseInputs \cup ConfigInputs

InitCalc ==
  /\ config = CHOOSE c \in RunConfigs : c.llm_provider = "Anthropic"
  /\ schema = [unique_content_hash |-> FALSE]
  /\ clock = 0
  /\ store = <<>>
  /\ req = [r \in Requests |-> IdleRequest]
  /\ calc \in CalcInputs

\* detector::analyze lines 116-151 on its two results
CombineResults ==
  /\ calc.op = "combine"
  /\ ~calc.done
  /\ calc' = [calc EXCEPT
                !.rec = BuildRecord(1, DocCasual, NoMeta, calc.llm, calc.heur, clock),
                !.body = BuildResponse(calc.llm, calc.heur),
                !.done = TRUE]
  /\ UNCHANGED <<config, schema, clock, store, req>>

\* heuristics::analyze on a text
RunHeuristics ==
  /\ calc.op = "heuristics"
  /\ ~calc.done
  /\ calc' = [calc EXCEPT !.heur = HeuristicsAnalyze(calc.doc), !.done = TRUE]
  /\ UNCHANGED <<config, schema, clock, store, req>>

\* parse_score on a reply
ParseReply ==
  /\ calc.op = "parse"
  /\ ~calc.done
  /\ calc' = [calc EXCEPT !.llm = parse_score(calc.reply), !.done = TRUE]
  /\ UNCHANGED <<config, schema, clock, store, req>>

\* Config::from_env on an environment
LoadConfig ==
  /\ calc.op = "config"
  /\ ~calc.done
  /\ calc' = [calc EXCEPT !.cfg = ConfigFromEnv(calc.env), !.done = TRUE]
  /\ UNCHANGED <<config, schema, clock, store, req>>

NextCalc ==
  \/ CombineResults
  \/ RunHeuristics
  \/ ParseReply
  \/ LoadConfig

SpecCalc == InitCalc /\ [][NextCalc]_vars

(***************************************************************************)
(* Properties                                                              *)
(***************************************************************************)
Fingerprint(r) == hash_content(req[r].doc)

\* the rows request r inserted (a record's id is its request's)
RowsOf(r) == {i \in 1..Len(store) : store[i].id = r}

\* request r takes its lookup step
LookupStep(r) == req[r].pc = "lookup" /\ req'[r].pc # "lookup"

\* after a hit nothing was analysed or written by r
NoAnalysis(fields) ==
  /\ fields.heur = "none"
  /\ fields.llm.kind = "none"
  /\ fields.insert = "none"

\* C1 (as stated): once a record for a text is in the store, every request
\* for the same text whose lookup comes later returns from the cache: no
\* heuristic run, no LLM call, no insert, the store unchanged.
C1_Original ==
  [][\A r \in Requests :
       /\ (LookupStep(r) /\ RowsWithHash(store, Fingerprint(r)) # {})
            => /\ req'[r].lookup = "hit"
               /\ req'[r].pc = "done"
               /\ NoAnalysis(req'[r])
               /\ store' = store
       /\ req[r].lookup = "hit" => req'[r] = req[r]]_vars

\* C1 (amended): once a record for a text is in the store, every request for
\* the same text whose lookup comes later AND SUCCEEDS returns from the
\* cache: no heuristic run, no LLM call, no insert, the store unchanged
\* (a failed lookup is a cache miss).
C1_CacheHitSideEffectFree ==
  [][\A r \in Requests :
       /\ (/\ LookupStep(r)
           /\ RowsWithHash(store, Fingerprint(r)) # {}
           /\ req'[r].lookup # "read_error")
            => /\ req'[r].lookup = "hit"
               /\ req'[r].pc = "done"
               /\ req'[r].resp.kind = "ok"
               /\ NoAnalysis(req'[r])
               /\ store' = store
       /\ req[r].lookup = "hit" => req'[r] = req[r]]_vars

\* a request was served from the cache while the creator of the record had
\* returned successfully
C1_Witness ==
  \E r \in Requests :
    /\ req[r].lookup = "hit"
    /\ req[r].pc = "done"
    /\ req[req[r].served].resp.kind = "ok"

\* C2: the response of a cache hit equals the response returned by the
\* request that created the record (score, confidence, label, llm_score,
\* heuristic_score, signals), whatever the metadata of the hitting request.
C2_CacheRoundTrip ==
  \A r \in Requests :
    req[r].lookup = "hit"
      => /\ req[r].served \in Requests
         /\ req[req[r].served].pc = "done"
         /\ req[req[r].served].insert = "ok"
         /\ Fingerprint(req[r].served) = Fingerprint(r)
         /\ req[r].resp = req[req[r].served].resp
         /\ req[r].resp.kind = "ok"

\* a hit whose metadata differs from the metadata of the creating request,
\* on a record with signals
C2_Witness ==
  \E r \in Requests :
    /\ req[r].lookup = "hit"
    /\ req[r].meta.author # req[req[r].served].meta.author
    /\ req[r].meta.platform # req[req[r].served].meta.platform
    /\ req[r].resp.body.signals # <<>>

\* C3: when the LLM judge returns an error on a cache miss, the request
\* returns that error: no response with a score, no record inserted by it
\* (so the store holds nothing of it for a later lookup).  A judge that
\* panics leaves no response and no record either.
C3_LlmFailureFailsRequest ==
  \A r \in Requests :
    /\ req[r].llm.kind = "err"
         => /\ req[r].pc = "done"
            /\ req[r].resp = RespErr(LlmErrorKind(config))
            /\ req[r].insert = "none"
            /\ RowsOf(r) = {}
    /\ req[r].llm.kind = "panic"
         => /\ req[r].pc = "done"
            /\ req[r].resp = RespPanic
            /\ req[r].insert = "none"
            /\ RowsOf(r) = {}

\* a request failed on the LLM judge while its heuristic task had been
\* spawned, and the store has no row of its fingerprint
C3_Witness ==
  \E r \in Requests :
    /\ req[r].llm.kind = "err"
    /\ req[r].lookup = "miss"
    /\ req[r].heur = "detached"
    /\ RowsWithHash(store, Fingerprint(r)) = {}

\* C4: when heuristics and LLM both succeeded and the insert fails, the
\* request still returns the computed result.
C4_InsertFailureStillReturns ==
  \A r \in Requests :
    req[r].insert = "failed"
      => /\ req[r].resp.kind = "ok"
         /\ req[r].resp.body.llm_score # <<>>
         /\ req[r].resp.body.label = score_to_label(req[r].resp.body.score, FALSE)

\* C5: a failed lookup is a cache miss: the request goes on to the heuristic
\* task and the LLM call, and what it returns is what a miss returns (a
\* result, or the error of the LLM, of the heuristic task or of the insert).
C5_ReadErrorIsMiss ==
  \A r \in Requests :
    req[r].lookup = "read_error"
      => /\ req[r].pc \in {"llm", "join", "insert", "done"}
         /\ req[r].heur # "none"
         /\ req[r].llm.kind # "none"
         /\ req[r].served = 0
         /\ req[r].pc = "done"
              => \/ req[r].resp.kind = "ok" /\ req[r].insert = "ok"
                 \/ req[r].resp = RespErr(LlmErrorKind(config)) /\ req[r].llm.kind = "err"
                 \/ req[r].resp = RespPanic /\ req[r].llm.kind = "panic"
                 \/ req[r].resp = RespErr("Internal") /\ req[r].heur = "panicked"
                 \/ req[r].resp = RespErr("Database") /\ req[r].insert = "failed"

\* a request whose lookup failed although its record was there, and which
\* returned a freshly computed result
C5_Witness ==
  \E r \in Requests :
    /\ req[r].lookup = "read_error"
    /\ req[r].resp.kind = "ok"
    /\ Cardinality(RowsWithHash(store, Fingerprint(r))) = 2

\* C6: a document that is empty after trimming or longer than 50,000
\* characters is rejected with BadRequest before any other work; a request
\* rejected so did no lookup, no heuristic run, no LLM call, no insert; and
\* every request that reaches the lookup carries a valid document.
Untouched(fields) ==
  /\ fields.lookup = "none"
  /\ fields.served = 0
  /\ NoAnalysis(fields)

C6_RejectBeforeWork ==
  \A r \in Requests :
    /\ (req[r].pc # "idle" /\ (req[r].doc.blank \/ req[r].doc.chars > 50000))
         => /\ req[r].pc = "done"
            /\ req[r].resp = RespErr("BadRequest")
    /\ req[r].resp = RespErr("BadRequest")
         => /\ Untouched(req[r])
            /\ RowsOf(r) = {}
    /\ (req[r].pc = "lookup" \/ req[r].lookup # "none")
         => /\ ~req[r].doc.blank
            /\ req[r].doc.chars <= 50000

\* a document of 50,001 characters was rejected, and so was a blank one
C6_Witness ==
  /\ \E r \in Requests : req[r].doc = DocLong /\ req[r].resp = RespErr("BadRequest")
  /\ \E r \in Requests : req[r].doc = DocBlank /\ req[r].resp = RespErr("BadRequest")

\* C7: on a cache miss, a record or a computed response of a request exists
\* only when its heuristic task and its LLM call have both ended
\* successfully.
C7_CombineAfterBoth ==
  \A r \in Requests :
    (\/ req[r].pc = "insert"
     \/ req[r].rec # NoRecord
     \/ req[r].insert # "none"
     \/ RowsOf(r) # {}
     \/ (req[r].resp.kind = "ok" /\ req[r].lookup # "hit"))
      => /\ req[r].heur = "ok"
         /\ req[r].llm.kind = "ok"

\* a request was waiting for its heuristic task with the LLM result at hand,
\* while another one had returned a computed result
C7_Witness ==
  \E r, q \in Requests :
    /\ req[r].pc = "join" /\ req[r].heur = "running" /\ req[r].llm.kind = "ok"
    /\ req[q].resp.kind = "ok" /\ req[q].lookup = "miss"

\* C8: there is no single flight: whatever the other requests are doing, a
\* request at its lookup can take it, finds nothing when the store has no
\* row of its fingerprint and goes on to the full analysis, and a request at
\* its insert can attempt it.
C8_NoSingleFlight ==
  \A r \in Requests :
    /\ (req[r].pc = "lookup" /\ RowsWithHash(store, Fingerprint(r)) = {})
         => ENABLED (Lookup(r) /\ req'[r].pc = "llm" /\ req'[r].lookup = "miss")
    /\ req[r].pc = "insert" => ENABLED Insert(r)

\* two requests with the same text both missed the cache, both ran the
\* heuristic engine and the LLM judge, and both attempted the insert
C8_Witness ==
  \E r, q \in Requests :
    /\ r # q
    /\ Fingerprint(r) = Fingerprint(q)
    /\ req[r].lookup = "miss" /\ req[q].lookup = "miss"
    /\ req[r].heur = "ok" /\ req[q].heur = "ok"
    /\ req[r].llm.kind = "ok" /\ req[q].llm.kind = "ok"
    /\ req[r].insert # "none" /\ req[q].insert # "none"

\* the first-written row of a fingerprint
FirstWritten(h) ==
  store[CHOOSE i \in RowsWithHash(store, h) :
          \A k \in RowsWithHash(store, h) : i <= k]

\* C9 (as stated): every cache hit returns the record of its fingerprint
\* that was written first.
C9_Original ==
  \A r \in Requests :
    req[r].lookup = "hit" => req[r].served = FirstWritten(Fingerprint(r)).id

\* C9 (amended): every cache hit returns a record of its fingerprint with
\* the latest created_at among those in the store at the lookup (the first
\* written one only when no later one is there; any of those created in the
\* same second).
C9_LatestCreatedWins ==
  [][\A r \in Requests :
       (LookupStep(r) /\ req'[r].lookup = "hit")
         => \E i \in RowsWithHash(store, Fingerprint(r)) :
              /\ req'[r].served = store[i].id
              /\ req'[r].resp = RespOk(CachedResponse(store[i]))
              /\ \A k \in RowsWithHash(store, Fingerprint(r)) :
                   store[k].created_at <= store[i].created_at]_vars

\* a hit returned a record other than the first written, whose result
\* differs from the first one's
C9_Witness ==
  \E r \in Requests :
    /\ req[r].lookup = "hit"
    /\ req[r].served # FirstWritten(Fingerprint(r)).id
    /\ req[r].resp.body.score # I32AsU8(FirstWritten(Fingerprint(r)).score)

\* C10 (as stated): the store never holds two records of one fingerprint.
C10_Original ==
  \A i, j \in 1..Len(store) :
    store[i].content_hash = store[j].content_hash => i = j

\* C10 (amended): analyze requests only append to the store: a record once
\* written is never modified or removed, each step adds at most one record,
\* and a request adds at most one (its own, after a miss); there may be
\* several records of one fingerprint, one per request that missed the cache.
C10_AppendOnly ==
  [][/\ Len(store') >= Len(store)
     /\ Len(store') <= Len(store) + 1
     /\ SubSeq(store', 1, Len(store)) = store
     /\ Len(store') = Len(store) + 1
          => LET row == store'[Len(store')] IN
             /\ row.id \in Requests
             /\ RowsOf(row.id) = {}
             /\ req[row.id].pc = "insert"
             /\ req[row.id].lookup \in {"miss", "read_error"}
             /\ row = req[row.id].rec]_vars

\* two records of one fingerprint are in the store
C10_Witness ==
  \E i, j \in 1..Len(store) :
    i # j /\ store[i].content_hash = store[j].content_hash

\* the steps request r itself can take
RequestStep(r) ==
  \/ Lookup(r)
  \/ HeuristicTask(r)
  \/ LlmReturn(r)
  \/ Insert(r)

\* C11: every analyze request terminates with a result or an error even
\* when the provider never answers: a request that has been received and
\* has not returned always has a step to take (the answer, or the timeout
\* of the network call, ends its wait).
C11_RequestNeverStuck ==
  \A r \in Requests :
    req[r].pc \notin {"idle", "done"} => ENABLED RequestStep(r)

\* the heuristics-only label table
HeuristicsOnlyLabel(score) ==
  CASE score <= 3 -> "human"
    [] score \in {4, 5} -> "uncertain"
    [] score \in {6, 7} -> "likely_ai"
    [] OTHER -> "ai"

\* C12: when the configured provider is None, a request that missed the
\* cache returns a result made by the heuristic engine alone: llm_score is
\* absent, the score is the heuristic score and the label comes from the
\* heuristics-only table (never "mixed"); it fails only when the heuristic
\* task or the store fails, never for want of an LLM.
C12_HeuristicsOnlyMode ==
  \A r \in Requests :
    (/\ config.llm_provider = "None"
     /\ req[r].pc = "done"
     /\ req[r].lookup \in {"miss", "read_error"})
      => \/ /\ req[r].resp.kind = "ok"
            /\ req[r].resp.body.llm_score = <<>>
            /\ req[r].resp.body.score = req[r].resp.body.heuristic_score
            /\ req[r].resp.body.label = HeuristicsOnlyLabel(req[r].resp.body.score)
            /\ req[r].resp.body.label # "mixed"
         \/ req[r].resp = RespErr("Internal")
         \/ req[r].resp = RespErr("Database")

\* C13: for every LLM score l and heuristic score h in 0..10 the final
\* score n is 0.6*l + 0.4*h rounded to the nearest integer (6l + 4h is within
\* half a point of 10n, a half rounding up) and lies in 0..10; the response
\* and the record carry n, l and h.
C13_CombinedScore ==
  (calc.op = "combine" /\ calc.done) =>
    LET l == calc.llm.score
        h == calc.heur.score
        n == calc.body.score
    IN /\ n \in 0..10
       /\ 10 * n - 5 <= 6 * l + 4 * h
       /\ 6 * l + 4 * h < 10 * n + 5
       /\ calc.rec.score = n
       /\ calc.body.llm_score = <<l>>
       /\ calc.body.heuristic_score = h
       /\ calc.rec.llm_score = <<l>>
       /\ calc.rec.heuristic_score = h

\* an LLM score of 3 and a heuristic score of 2 were combined to 3 (2.6)
C13_Witness ==
  /\ calc.op = "combine"
  /\ calc.done
  /\ calc.llm.score = 3
  /\ calc.heur.score = 2
  /\ calc.body.score = 3

\* C14: with an LLM result, the label of the response and of the record is
\* "human" for a final score of 0..3, "mixed" for 4..5, "likely_ai" for 6..7
\* and "ai" for 8..10, and never "unknown".
C14_LabelTable ==
  (calc.op = "combine" /\ calc.done) =>
    LET n == calc.body.score
        label == calc.body.label
    IN /\ label \in {"human", "mixed", "likely_ai", "ai"}
       /\ label = "human" <=> n \in 0..3
       /\ label = "mixed" <=> n \in 4..5
       /\ label = "likely_ai" <=> n \in 6..7
       /\ label = "ai" <=> n \in 8..10
       /\ calc.rec.label = label

\* a final score of 5 was labelled "mixed"
C14_Witness ==
  /\ calc.op = "combine"
  /\ calc.done
  /\ calc.body.score = 5
  /\ calc.body.label = "mixed"

\* the elements of a sequence
Range(seq) == {seq[i] : i \in 1..Len(seq)}

\* score_sum / weight_sum, rounded, after the first n categories
RoundedAfter(doc, n) ==
  RoundDiv(ScoreSum(HeurVotes(doc), n), WeightSum(HeurVotes(doc), n))

\* C15: a text with at least one em or en dash gets a heuristic score of
\* at least 8 and the signal em_en_dash, whatever else fires.
C15_DashOverride ==
  (calc.op = "heuristics" /\ calc.done /\ calc.doc.udash >= 1) =>
    /\ calc.heur.score >= 8
    /\ "em_en_dash" \in Range(calc.heur.signals)

\* a text with a dash and three slang words, whose weighted average rounds
\* below 8, was scored 8
C15_Witness ==
  /\ calc.op = "heuristics"
  /\ calc.done
  /\ calc.doc.udash >= 1
  /\ calc.doc.informal >= 3
  /\ RoundedAfter(calc.doc, 13) < 8
  /\ calc.heur.score = 8

\* C16: for every non-empty text, whatever the categories find, the score
\* heuristics::analyze returns is an integer from 0 to 10.
C16_ScoreInRange ==
  (calc.op = "heuristics" /\ calc.done) => calc.heur.score \in 0..10

\* a text without a dash on which the strongest categories fire together
\* (three formulaic phrases, two promotional patterns) was scored 8
C16_Witness ==
  /\ calc.op = "heuristics"
  /\ calc.done
  /\ calc.doc.udash = 0
  /\ calc.doc.formula >= 3
  /\ calc.doc.promo >= 2
  /\ calc.heur.score = 8

\* C18: a text of fewer than 20 words gets the signal
\* short_text_low_confidence, and the signal adds nothing to score_sum or
\* weight_sum: the score is the one the ten scoring categories give.
C18_ShortTextSignal ==
  (calc.op = "heuristics" /\ calc.done /\ calc.doc.words < 20) =>
    LET votes == HeurVotes(calc.doc)
        rounded == RoundedAfter(calc.doc, 12)
    IN /\ "short_text_low_confidence" \in Range(calc.heur.signals)
       /\ ScoreSum(votes, 13) = ScoreSum(votes, 12)
       /\ WeightSum(votes, 13) = WeightSum(votes, 12)
       /\ calc.heur.score =
            IF calc.doc.udash >= 1 /\ rounded < 8 THEN 8 ELSE Min(rounded, 10)

\* a text of 12 words on which another category fired as well was given the
\* short-text signal last
C18_Witness ==
  /\ calc.op = "heuristics"
  /\ calc.done
  /\ calc.doc.words = 12
  /\ Len(calc.heur.signals) >= 2
  /\ calc.heur.signals[Len(calc.heur.signals)] = "short_text_low_confidence"

\* the signals of the AI-leaning categories
AiSignals ==
  {"uniform_sentence_length", "low_sentence_variance", "low_vocabulary_diversity",
   "low_burstiness", "formulaic_phrases", "some_formulaic_phrases", "em_en_dash",
   "spaced_hyphen", "ai_vocabulary", "some_ai_vocabulary", "uniform_punctuation",
   "high_comma_frequency", "line_per_sentence", "heavy_line_breaks",
   "promotional_pattern", "some_promotional"}

\* C19: a text on which no AI-leaning category fires gets a score of at
\* most 3.
C19_NoAiSignalScoresHuman ==
  (calc.op = "heuristics" /\ calc.done
     /\ Range(calc.heur.signals) \cap AiSignals = {}) =>
    calc.heur.score <= 3

\* a text of three sentences and more than 20 words on which no category
\* pushed a signal was scored 3
C19_Witness ==
  /\ calc.op = "heuristics"
  /\ calc.done
  /\ Len(calc.doc.sentLens) >= 3
  /\ calc.doc.words >= 20
  /\ calc.heur.signals = <<>>
  /\ calc.heur.score = 3

\* C20: for every reply whose JSON carries a numeric score and confidence,
\* a score above 10 or below 0 and a confidence outside [0,1] included, the
\* judge returns a result, never an error, with the score clamped into
\* 0..10 and the confidence into [0.0, 1.0].
C20_ClampNeverError ==
  (calc.op = "parse" /\ calc.done /\ calc.reply \in ParseReplies) =>
    /\ calc.llm.kind = "ok"
    /\ calc.llm.score = Clamp(calc.reply.score, 0, 10)
    /\ calc.llm.confidence = Clamp(calc.reply.confidence, 0, 100)

\* C21: parsing a reply is total: for every reply, with no brace, with only
\* '{', with only '}' or with the last '}' before the first '{', it returns
\* an LlmResult or the LLM error, and never crashes the request.
C21_ParseTotal ==
  (calc.op = "parse" /\ calc.done) => calc.llm.kind \in {"ok", "err"}

\* the provider auto-detection selects
AutoDetected(env) ==
  IF env.anthropic_api_key # "" THEN "Anthropic"
  ELSE IF env.openrouter_api_key # "" THEN "OpenRouter"
  ELSE "None"

\* C22 as stated: the override values are exactly "anthropic", "claude" and
\* "openrouter"; any other value, "CLAUDE" included, leads to auto-detection.
C22_Original ==
  (calc.op = "config" /\ calc.done) =>
    LET env == calc.env
        p == calc.cfg.llm_provider
    IN /\ env.primary \in {"anthropic", "claude"} =>
            p = IF env.anthropic_api_key = "" THEN "panic" ELSE "Anthropic"
       /\ env.primary = "openrouter" =>
            p = IF env.openrouter_api_key = "" THEN "panic" ELSE "OpenRouter"
       /\ env.primary \notin {"anthropic", "claude", "openrouter"} =>
            p = AutoDetected(env)

\* C22: the override is compared without regard to case: an override
\* naming Anthropic ("anthropic", "claude") or OpenRouter selects that
\* provider and startup fails when its credential is empty; any other value
\* leads to auto-detection (Anthropic, else OpenRouter, else None); a
\* selected provider other than None has a non-empty credential.
C22_ProviderSelection ==
  (calc.op = "config" /\ calc.done) =>
    LET env == calc.env
        p == calc.cfg.llm_provider
        namesAnthropic == env.primary \in {"anthropic", "claude", "Anthropic", "CLAUDE"}
        namesOpenRouter == env.primary \in {"openrouter", "OpenRouter"}
    IN /\ namesAnthropic =>
            p = IF env.anthropic_api_key = "" THEN "panic" ELSE "Anthropic"
       /\ namesOpenRouter =>
            p = IF env.openrouter_api_key = "" THEN "panic" ELSE "OpenRouter"
       /\ (~namesAnthropic /\ ~namesOpenRouter) => p = AutoDetected(env)
       /\ p = "Anthropic" => calc.cfg.anthropic_api_key # ""
       /\ p = "OpenRouter" => calc.cfg.openrouter_api_key # ""

\* startup failed under the override "CLAUDE" with no Anthropic credential,
\* although an OpenRouter credential was set
C22_Witness ==
  /\ calc.op = "config"
  /\ calc.done
  /\ calc.env.primary = "CLAUDE"
  /\ calc.env.anthropic_api_key = ""
  /\ calc.env.openrouter_api_key # ""
  /\ calc.cfg.llm_provider = "panic"

\* C23: for every LLM confidence c in [0.0, 1.0] the combined confidence is
\* the smaller of 1.0 and 0.7*c + 0.3 (here in thousandths, c in hundredths),
\* so it is never below 0.3 nor above 1.0, in the response and in the record.
C23_CombinedConfidence ==
  (calc.op = "combine" /\ calc.done) =>
    LET c == calc.llm.confidence
        k == calc.body.confidence
    IN /\ k = IF 7 * c + 300 < 1000 THEN 7 * c + 300 ELSE 1000
       /\ 300 <= k
       /\ k <= 1000
       /\ calc.rec.confidence = k

\* an LLM confidence of 0.0 was combined to 0.3
C23_Witness ==
  /\ calc.op = "combine"
  /\ calc.done
  /\ calc.llm.confidence = 0
  /\ calc.body.confidence = 300

\* what the categories alone add to score_sum and weight_sum (doubled)
CategorySums(doc) ==
  [ss |-> ScoreSum(HeurVotes(doc), 13) - HeurVotes(doc)[1].ss,
   w |-> WeightSum(HeurVotes(doc), 13) - HeurVotes(doc)[1].w]

\* the dash override and the cap applied to a rounded average
FinalScore(doc, rounded) ==
  IF doc.udash >= 1 /\ rounded < 8 THEN 8 ELSE Min(rounded, 10)

\* C24 as stated: the sums start at 0, so a text on which no category
\* contributes is scored 5, and any other text is scored
\* round(score_sum / weight_sum) over the contributing categories only.
C24_Original ==
  (calc.op = "heuristics" /\ calc.done) =>
    LET cat == CategorySums(calc.doc) IN
    IF cat.w = 0 THEN calc.heur.score = 5
    ELSE calc.heur.score = FinalScore(calc.doc, RoundDiv(cat.ss, cat.w))

\* C24: score_sum starts at 4.5 and weight_sum at 1.5 (a prior of 3.0 with
\* weight 1.5): a text on which no category contributes is scored 3, and
\* every text is scored round((4.5 + category sum) / (1.5 + category
\* weight)), raised to 8 by a dash and capped at 10; there is no fallback.
C24_PriorAccumulation ==
  (calc.op = "heuristics" /\ calc.done) =>
    LET cat == CategorySums(calc.doc) IN
    /\ cat.w = 0 => calc.heur.score = 3
    /\ calc.heur.score = FinalScore(calc.doc, RoundDiv(9 + cat.ss, 3 + cat.w))

\* a text on which no category contributed was scored 3
C24_Witness ==
  /\ calc.op = "heuristics"
  /\ calc.done
  /\ CategorySums(calc.doc).w = 0
  /\ calc.heur.score = 3

\* C25 as stated: each scoring category changes score_sum and weight_sum
\* exactly when it appends a signal, and appends at most one.
C25_Original ==
  (calc.op = "heuristics" /\ calc.done) =>
    \A i \in 2..12 :
      LET v == HeurVotes(calc.doc)[i] IN
      /\ Len(v.sig) <= 1
      /\ (v.ss > 0 \/ v.w > 0) <=> v.sig # <<>>

\* C25: a scoring category that appends a signal appends exactly one and
\* adds its score times weight and its weight; a category that appends none
\* adds nothing, except the three human-leaning votes (sentence variance,
\* vocabulary diversity, burstiness), which add 2.0 * 0.5 and 0.5 without a
\* signal; the returned list holds one label per signalling category.
C25_SignalsAndVotes ==
  (calc.op = "heuristics" /\ calc.done) =>
    LET votes == HeurVotes(calc.doc) IN
    /\ \A i \in 2..12 :
         /\ Len(votes[i].sig) <= 1
         /\ votes[i].sig # <<>> => votes[i].ss > 0 /\ votes[i].w > 0
         /\ (votes[i].sig = <<>> /\ (votes[i].ss > 0 \/ votes[i].w > 0)) =>
              i \in 2..4 /\ votes[i].ss = 2 /\ votes[i].w = 1
    /\ Len(calc.heur.signals) = Cardinality({i \in 2..13 : votes[i].sig # <<>>})

\* a text whose burstiness voted human without a signal while its formulaic
\* phrases pushed one
C25_Witness ==
  /\ calc.op = "heuristics"
  /\ calc.done
  /\ HeurVotes(calc.doc)[4] = Vote(2, 1, <<>>)
  /\ HeurVotes(calc.doc)[5].sig # <<>>
  /\ "low_burstiness" \notin Range(calc.heur.signals)

\* C26: for a text of fewer than 3 sentences the burstiness extractor
\* returns the neutral 0.5 and the burstiness category casts no vote: it
\* adds nothing to score_sum or weight_sum and appends no signal.
C26_FewSentencesNoBurstVote ==
  (calc.op = "heuristics" /\ calc.done /\ Len(calc.doc.sentLens) < 3) =>
    /\ compute_burstiness(calc.doc).sd2 = compute_burstiness(calc.doc).mean2
    /\ CatBurstiness(calc.doc) = NoVote
    /\ "low_burstiness" \notin Range(calc.heur.signals)

\* C27: the length limit counts characters: a document that is not blank and
\* has at most 50,000 characters is accepted for analysis, whatever the
\* length of its UTF-8 encoding, and one of more than 50,000 characters is
\* rejected.
C27_LimitInCharacters ==
  \A r \in Requests :
    (req[r].pc = "done" /\ ~req[r].doc.blank) =>
      /\ req[r].doc.chars <= MAX_CONTENT_LEN => req[r].resp # RespErr("BadRequest")
      /\ req[r].doc.chars > MAX_CONTENT_LEN => req[r].resp = RespErr("BadRequest")

\* C28: whatever the categories find, the heuristic score lies in 2..8: it
\* is never 0, 1, 9 or 10, the cap at 10 never changes the rounded value,
\* and a text with an em or en dash scores exactly 8.
C28_ScoreBetween2And8 ==
  (calc.op = "heuristics" /\ calc.done) =>
    LET rounded == RoundedAfter(calc.doc, 13) IN
    /\ calc.heur.score \in 2..8
    /\ rounded \in 2..8
    /\ Min(rounded, 10) = rounded
    /\ calc.doc.udash >= 1 => calc.heur.score = 8

\* a text with three slang words and no AI-leaning evidence was scored 2
C28_Witness ==
  /\ calc.op = "heuristics"
  /\ calc.done
  /\ calc.doc.informal >= 3
  /\ Range(calc.heur.signals) \cap AiSignals = {}
  /\ calc.heur.score = 2

====
